---- MODULE Spec2Model ----
(***************************************************************************)
(* RandomForestClassifierCustom (custom_random_forest.py): a bagged forest *)
(* of decision trees trained and queried through a ProcessPoolExecutor.    *)
(*                                                                         *)
(* Conventions.  Python indices are kept 0-based as VALUES (tree_index,    *)
(* row ids, feature ids); TLA+ sequences are 1-based, so element k of a    *)
(* Python list is element k+1 of the sequence that models it.  A matrix is *)
(* a sequence of rows, each a sequence of cells; its column count is kept  *)
(* beside it because a matrix may have rows of width 0.                    *)
(***************************************************************************)
EXTENDS Integers, Sequences, FiniteSets, TLC

\* ------------------------------------------------------------------ bounds
MaxTrees == 2     \* n_estimators ranges over 0..MaxTrees
MaxJobs == 2      \* n_jobs ranges over 1..MaxJobs
MaxRows == 2      \* rows of X and length of y range over 1..MaxRows
MaxCols == 2      \* columns of X range over 1..MaxCols
MaxLabel == 1     \* class labels range over 0..MaxLabel
MaxSeed == 1      \* random_state ranges over 0..MaxSeed

\* max_features=None (the constructor default, line 9)
NoneVal == -1

\* ------------------------------------------------------------ small helpers
Range(s) == {s[k] : k \in DOMAIN s}

Min2(a, b) == IF a < b THEN a ELSE b

RECURSIVE SumSeq(_)
SumSeq(s) == IF s = <<>> THEN 0 ELSE Head(s) + SumSeq(Tail(s))

RECURSIVE Fact(_)
Fact(n) == IF n <= 1 THEN 1 ELSE n * Fact(n - 1)

RECURSIVE SortedSeqOf(_)
\* sorted(np.unique(y)): the distinct values in ascending order
SortedSeqOf(S) ==
    IF S = {} THEN <<>>
    ELSE LET m == CHOOSE x \in S : \A z \in S : x <= z
         IN  <<m>> \o SortedSeqOf(S \ {m})

\* --------------------------------------------------- numpy global generator
\* The process-wide generator behind np.random.*: a deterministic generator
\* whose whole state is one number.  A linear congruential generator stands in
\* for the Mersenne Twister; what matters is that seeding fixes the state, that
\* every draw advances it, and that the state outlives the call that drew.
RngNext(s) == (5 * s + 15) % 64

\* np.random.seed(seed) forgotten: the generator keeps the state left by
\* whatever ran before in the same process
RngSeedKeep(s, seed) == s

\* np.random.seed(seed): the state no longer depends on the previous state s
RngSeed(s, seed) == seed % 64

\* the seed without the tree index: every tree would draw the same slice
TreeSeedNoIndex(random_state, i) == random_state

\* self.random_state + i
TreeSeed(random_state, i) == random_state + i

\* one bounded draw in 0..n-1: [v |-> value, s |-> generator state afterwards]
Draw(s, n) == [v |-> (RngNext(s) \div 8) % n, s |-> RngNext(s)]

RECURSIVE Shuffle(_, _, _)
\* RandomState.shuffle on perm: for i = n-1 down to 1, swap perm[i] with
\* perm[j], j drawn from 0..i.  i is the 0-based position still to be placed.
Shuffle(s, perm, i) ==
    IF i < 1 THEN [v |-> perm, s |-> s]
    ELSE LET d == Draw(s, i + 1)
             swapped == [perm EXCEPT ![i + 1] = perm[d.v + 1],
                                     ![d.v + 1] = perm[i + 1]]
         IN  Shuffle(d.s, swapped, i - 1)

\* np.random.choice(range(n), k, replace=False) == permutation(n)[:k]
\* (0 <= k <= n; the caller handles the sizes numpy rejects)
ChoiceNoReplace(s, n, k) ==
    LET p == Shuffle(s, [j \in 1..n |-> j - 1], n - 1)
    IN  [v |-> SubSeq(p.v, 1, k), s |-> p.s]

RECURSIVE ChoiceReplace(_, _, _)
\* np.random.choice(range(n), k, replace=True) == randint(0, n, size=k)
ChoiceReplace(s, n, k) ==
    IF k = 0 THEN [v |-> <<>>, s |-> s]
    ELSE LET d == Draw(s, n)
             rest == ChoiceReplace(d.s, n, k - 1)
         IN  [v |-> <<d.v>> \o rest.v, s |-> rest.s]

\* ------------------------------------------------------------------ data
\* A matrix is [ncols |-> c, rows |-> <<row_1, ..., row_r>>], cells 0 or 1.
\* Rows come in two kinds that differ in every column: odd columns set, or
\* even columns set.
RowKinds == {0, 1}

RowsOfWidth(c) == {[j \in 1..c |-> (j + p) % 2] : p \in RowKinds}

Matrices ==
    UNION {[ncols : {c}, rows : [1..r -> RowsOfWidth(c)]] :
           r \in 1..MaxRows, c \in 1..MaxCols}

Labels == 0..MaxLabel

LabelVectors == UNION {[1..r -> Labels] : r \in 1..MaxRows}

NRows(X) == Len(X.rows)

\* X[ids, :] for a sequence of 0-based row ids
TakeRows(X, ids) ==
    [ncols |-> X.ncols, rows |-> [k \in 1..Len(ids) |-> X.rows[ids[k] + 1]]]

\* X[:, ids] for a sequence of 0-based column ids, all below X.ncols
TakeCols(X, ids) ==
    [ncols |-> Len(ids),
     rows  |-> [r \in 1..NRows(X) |-> [k \in 1..Len(ids) |-> X.rows[r][ids[k] + 1]]]]

\* y[ids] for a sequence of 0-based ids, all below Len(y)
TakeLabels(y, ids) == [k \in 1..Len(ids) |-> y[ids[k] + 1]]

\* ---------------------------------------------------------- base learner
\* sklearn's DecisionTreeClassifier, used through fit and predict_proba only.
\* Probabilities are exact fractions written over the common denominator
\* ProbDen, which every leaf size (at most MaxRows training rows) divides.
ProbDen == Fact(MaxRows)

\* clf.fit(Xsub, ysub) on a 2-D sample with at least one column: classes_ is
\* the sorted distinct labels of the sample it was given, and the grown tree
\* separates training rows exactly as far as their features differ.
ClfFit(Xsub, ysub) ==
    [classes |-> SortedSeqOf(Range(ysub)), X |-> Xsub.rows, y |-> ysub,
     n_features |-> Xsub.ncols]

\* the training rows that share the leaf of query row q: those with the same
\* features, or the whole sample when the tree never saw such a row
Leaf(clf, q) ==
    LET same == {t \in 1..Len(clf.y) : clf.X[t] = q}
    IN  IF same = {} THEN 1..Len(clf.y) ELSE same

\* clf.predict_proba(Q): one row per row of Q, one column per entry of
\* clf.classes_, each cell the share of that class in the row's leaf
ClfPredictProba(clf, Q) ==
    [ncols |-> Len(clf.classes),
     rows  |-> [r \in 1..NRows(Q) |->
                 [c \in 1..Len(clf.classes) |->
                   LET leaf == Leaf(clf, Q.rows[r])
                   IN  (Cardinality({t \in leaf : clf.y[t] = clf.classes[c]}) * ProbDen)
                           \div Cardinality(leaf)]]]

\* ------------------------------------------------------------- the units
NoRes == [kind |-> "none"]

Raised(err) == [kind |-> "exc", err |-> err]

\* the first max_features columns instead of the drawn ones
FitColsFirst(X, feat_ids) == TakeCols(X, [k \in 1..Len(feat_ids) |-> k - 1])

\* the columns the tree is trained on (line 24, [:, feat_ids])
FitCols(X, feat_ids) == TakeCols(X, feat_ids)

\* _fit_loop(i, X, y) run in a process whose generator is in state s.
\* Returns [res |-> (clf, feat_ids) or the exception, s |-> generator state
\* the process is left with].
FitLoop(random_state, max_features, i, X, y, s) ==
    LET s0   == RngSeed(s, TreeSeed(random_state, i))
        k    == IF max_features = NoneVal THEN X.ncols ELSE max_features
        \* line 19: size=None draws the same permutation and returns a scalar
        f    == ChoiceNoReplace(s0, X.ncols, Min2(k, X.ncols))
        \* line 20
        b    == ChoiceReplace(f.s, NRows(X), NRows(X))
    IN  IF max_features # NoneVal /\ max_features > X.ncols
        THEN \* line 19: cannot take a larger sample than population
             [res |-> Raised("ValueError"), s |-> s0]
        ELSE IF \E j \in 1..Len(b.v) : b.v[j] >= Len(y)
        THEN \* line 24: y[x_ids_bootstrap] out of bounds
             [res |-> Raised("IndexError"), s |-> b.s]
        ELSE IF max_features = NoneVal \/ max_features = 0
        THEN \* line 24: clf.fit rejects a 1-D sample and a sample with no column
             [res |-> Raised("ValueError"), s |-> b.s]
        ELSE [res |-> [kind |-> "fit",
                       clf |-> ClfFit(FitCols(TakeRows(X, b.v), f.v),
                                      TakeLabels(y, b.v)),
                       feat |-> f.v, x_ids |-> b.v],
              s |-> b.s]

\* the tree queried on the first columns of X instead of its own
PredictProbaLoopFirstCols(X, clf, feat_ids) ==
    IF clf.n_features > X.ncols THEN Raised("IndexError")
    ELSE [kind |-> "proba",
          proba |-> ClfPredictProba(clf, TakeCols(X, [k \in 1..clf.n_features |-> k - 1]))]

\* _predict_proba_loop(X, clf, feat_ids)
PredictProbaLoop(X, clf, feat_ids) ==
    IF \E k \in 1..Len(feat_ids) : feat_ids[k] >= X.ncols
    THEN Raised("IndexError")
    ELSE [kind |-> "proba", proba |-> ClfPredictProba(clf, TakeCols(X, feat_ids))]

\* ------------------------------------------------------------ aggregation
\* Means are exact fractions over MeanDen: a sum of n <= MaxTrees numerators
\* over ProbDen, divided by n.
MeanDen == ProbDen * Fact(MaxTrees)

\* np.mean(y_pred_s, axis=0) on a list of matrices with equal row counts:
\* nan for an empty list, a ValueError when the column counts differ (the list
\* is no rectangular array), the cell-wise mean otherwise
MeanAxis0(mats) ==
    LET n == Len(mats)
    IN  IF n = 0 THEN [kind |-> "nan"]
        ELSE IF \E k \in 1..n : mats[k].ncols # mats[1].ncols THEN Raised("ValueError")
        ELSE [kind |-> "proba",
              proba |-> [ncols |-> mats[1].ncols,
                         rows |-> [r \in 1..NRows(mats[1]) |->
                                    [c \in 1..mats[1].ncols |->
                                      SumSeq([k \in 1..n |-> mats[k].rows[r][c]])
                                          * (Fact(MaxTrees) \div n)]]]]

\* np.argmax of one row: the 0-based position of the first maximum
ArgMax(row) ==
    (CHOOSE c \in 1..Len(row) :
        /\ \A d \in 1..Len(row) : row[d] <= row[c]
        /\ \A d \in 1..(c - 1) : row[d] < row[c]) - 1

\* np.argmax(probas, axis=1)
ArgMaxAxis1(P) == [r \in 1..NRows(P) |-> ArgMax(P.rows[r])]

\* ------------------------------------------------------------------ state
VARIABLES
    n_estimators,       \* self.n_estimators
    max_features,       \* self.max_features (NoneVal for None)
    random_state,       \* self.random_state
    trees,              \* self.trees
    feat_ids_by_tree,   \* self.feat_ids_by_tree
    classes_,           \* self.classes_ (<<>> while the attribute does not exist)
    pc,                 \* where the calling thread is: "idle", inside the with
                        \* block ("fit", "predict_proba"), or in its __exit__
                        \* ("fit_exit", "predict_proba_exit")
    call,               \* the public call being served, or served last
    futs,               \* the futures of the pool, in submission order
    rng,                \* the generator state of each worker process
    nxt,                \* 1-based position of the next future the caller waits on
    collected,          \* results / y_pred_s as built so far
    exc,                \* exception travelling out of the with block ("" if none)
    done_order,         \* positions of the futures in the order they completed
    last,               \* what the last public call gave its caller
    fits_left,          \* fit calls the run may still make
    old,                \* the fitted state when the call being served began
    fitted_on,          \* the X and y of the last fit that returned
    fasta_file,         \* OpenFasta: the lines of the file behind file_handle
    file_handle,        \* OpenFasta: how many lines file_handle has read
    current,            \* OpenFasta: self.current, the header read ahead
    records,            \* OpenFasta: the records handed out so far, in order
    fasta_last,         \* OpenFasta: what the last call gave its caller
    equipment,          \* LabEquipment: self.equipment
    booking_history,    \* LabEquipment: self.booking_history
    book_last           \* LabEquipment: the last book call and its outcome

forest_vars == <<n_estimators, max_features, random_state, trees, feat_ids_by_tree,
                 classes_, pc, call, futs, rng, nxt, collected, exc, done_order,
                 last, fits_left, old, fitted_on>>

fasta_vars == <<fasta_file, file_handle, current, records, fasta_last>>

lab_vars == <<equipment, booking_history, book_last>>

vars == <<forest_vars, fasta_vars, lab_vars>>

config == <<n_estimators, max_features, random_state>>
forest == <<trees, feat_ids_by_tree, classes_>>

NoData == [ncols |-> 0, rows |-> <<>>]

\* generator states a worker process may start with (what the parent process
\* holds when the pool forks its workers)
InheritedRng == {0, 21}

MaxFeatureValues == {NoneVal} \cup 0..(MaxCols + 1)

\* __init__ (lines 9-15) for every configuration in the bounds
InitWith(budget) ==
    /\ n_estimators \in 0..MaxTrees
    /\ max_features \in MaxFeatureValues
    /\ random_state \in 0..MaxSeed
    /\ trees = <<>>
    /\ feat_ids_by_tree = <<>>
    /\ classes_ = <<>>
    /\ pc = "idle"
    /\ call = [op |-> "none", X |-> NoData, y |-> <<>>]
    /\ futs = <<>>
    /\ rng = <<>>
    /\ nxt = 1
    /\ collected = <<>>
    /\ exc = ""
    /\ done_order = <<>>
    /\ last = [op |-> "none", status |-> "none", err |-> "", value |-> NoRes]
    /\ fits_left = budget
    /\ old = [trees |-> <<>>, feat_ids_by_tree |-> <<>>, classes_ |-> <<>>]
    /\ fitted_on = [X |-> NoData, y |-> <<>>]

\* OpenFasta: self.current = None, and record_id = None inside __next__
None == <<"None">>

\* no FASTA file is open
FastaUnused ==
    /\ fasta_file = <<>>
    /\ file_handle = 0
    /\ current = None
    /\ records = <<>>
    /\ fasta_last = [op |-> "none", fresh |-> FALSE, status |-> "none", value |-> <<>>]

\* no laboratory is kept
LabUnused ==
    /\ equipment = <<>>
    /\ booking_history = <<>>
    /\ book_last = [status |-> "none"]

\* a forest that is constructed, fitted once and then queried
Init == InitWith(1) /\ FastaUnused /\ LabUnused

\* a forest of MaxTrees trees with a max_features fit accepts for some X,
\* fitted up to twice
InitRefit ==
    /\ InitWith(2)
    /\ FastaUnused
    /\ LabUnused
    /\ n_estimators = MaxTrees
    /\ max_features \in 1..MaxCols
    /\ random_state = 0

\* ------------------------------------------------------- the worker pool
Pending(fs) == {k \in 1..Len(fs) : fs[k].st = "pending"}
Running(fs) == {k \in 1..Len(fs) : fs[k].st = "running"}

\* range(1, n): the first unit is never submitted
UnitIndicesSkipFirst(n) == [k \in 1..(IF n > 0 THEN n - 1 ELSE 0) |-> k]

\* range(self.n_estimators), as the sequence of tree indices submitted
UnitIndices(n) == [k \in 1..n |-> k - 1]

\* one pending future per unit
Submit(units) == [k \in 1..Len(units) |-> [st |-> "pending", i |-> units[k], w |-> 0, res |-> NoRes]]

\* the k-th result to arrive, whichever unit produced it
ResultAtCompletion(fs, order, k) == fs[order[k]].res

\* future.result() of the k-th submitted future
ResultAt(fs, order, k) == fs[k].res

\* a failed unit is skipped and the loop goes on
GatherSwallow(acc, res) ==
    IF res.kind = "exc" THEN [acc |-> acc, exc |-> ""]
    ELSE [acc |-> Append(acc, res), exc |-> ""]

\* one step of list(...) / the list comprehension over the futures: a result
\* is appended, an exception leaves the loop
Gather(acc, res) ==
    IF res.kind = "exc" THEN [acc |-> acc, exc |-> res.err]
    ELSE [acc |-> Append(acc, res), exc |-> ""]

\* what a public call has given its caller: status "running" until it
\* returns or raises
Outcome(op, status, err, value) ==
    [op |-> op, status |-> status, err |-> err, value |-> value]

\* fit, lines 28-30 up to the first wait: classes_ is assigned, the pool is
\* created and executor.map submits every unit
FitCall(X, y, nj) ==
    /\ pc = "idle"
    /\ fits_left > 0
    /\ fits_left' = fits_left - 1
    /\ classes_' = SortedSeqOf(Range(y))
    /\ old' = [trees |-> trees, feat_ids_by_tree |-> feat_ids_by_tree, classes_ |-> classes_]
    /\ call' = [op |-> "fit", X |-> X, y |-> y]
    /\ last' = Outcome("fit", "running", "", NoRes)
    /\ futs' = Submit(UnitIndices(n_estimators))
    /\ \E s \in InheritedRng : rng' = [w \in 1..nj |-> s]
    /\ nxt' = 1
    /\ collected' = <<>>
    /\ exc' = ""
    /\ done_order' = <<>>
    /\ pc' = IF Len(futs') = 0 THEN "fit_exit" ELSE "fit"
    /\ UNCHANGED <<fasta_vars, lab_vars, config, trees, feat_ids_by_tree, fitted_on>>

\* predict_proba, lines 38-40 (op "predict" enters through line 45): the pool
\* is created and one future per tree submitted; self.trees[i] raises
\* IndexError when the forest holds fewer than n_estimators trees
PredictCall(op, X, nj) ==
    /\ pc = "idle"
    /\ call' = [op |-> op, X |-> X, y |-> <<>>]
    /\ last' = Outcome(op, "running", "", NoRes)
    /\ old' = [trees |-> trees, feat_ids_by_tree |-> feat_ids_by_tree, classes_ |-> classes_]
    /\ nxt' = 1
    /\ collected' = <<>>
    /\ done_order' = <<>>
    /\ IF Len(trees) < n_estimators
       THEN /\ futs' = <<>>
            /\ rng' = <<>>
            /\ exc' = "IndexError"
            /\ pc' = "predict_proba_exit"
       ELSE /\ futs' = Submit(UnitIndices(n_estimators))
            \* _predict_proba_loop draws nothing: the workers' generators
            \* are never read, and only their number is kept
            /\ rng' = [w \in 1..nj |-> 0]
            /\ exc' = ""
            /\ pc' = IF Len(futs') = 0 THEN "predict_proba_exit" ELSE "predict_proba"
    /\ UNCHANGED <<fasta_vars, lab_vars, config, forest, fits_left, fitted_on>>

\* worker process w is running a unit
Busy(w) == \E k \in Running(futs) : futs[k].w = w

\* an idle worker process takes the oldest pending unit off the call queue
WorkerStart(w) ==
    /\ pc # "idle"
    /\ w \in DOMAIN rng
    /\ ~Busy(w)
    /\ Pending(futs) # {}
    /\ LET k == CHOOSE j \in Pending(futs) : \A m \in Pending(futs) : j <= m
       IN  futs' = [futs EXCEPT ![k].st = "running", ![k].w = w]
    /\ UNCHANGED <<fasta_vars, lab_vars, config, forest, pc, call, rng, nxt, collected, exc,
                   done_order, last, fits_left, old, fitted_on>>

\* the worker runs its unit to the end and the result reaches the future
WorkerFinish(w) ==
    /\ pc # "idle"
    /\ w \in DOMAIN rng
    /\ \E k \in Running(futs) :
        /\ futs[k].w = w
        /\ IF call.op = "fit"
           THEN LET r == FitLoop(random_state, max_features, futs[k].i,
                                 call.X, call.y, rng[w])
                IN  /\ futs' = [futs EXCEPT ![k].st = "done", ![k].res = r.res]
                    /\ rng' = [rng EXCEPT ![w] = r.s]
           ELSE /\ futs' = [futs EXCEPT ![k].st = "done",
                                        ![k].res = PredictProbaLoop(call.X, trees[futs[k].i + 1],
                                                                    feat_ids_by_tree[futs[k].i + 1])]
                /\ rng' = rng
        /\ done_order' = Append(done_order, k)
    /\ UNCHANGED <<fasta_vars, lab_vars, config, forest, pc, call, nxt, collected, exc, last,
                   fits_left, old, fitted_on>>

\* the futures still pending once the iterator behind executor.map has been
\* torn down by an exception: it cancels what it still holds, but the units
\* already moved to the call queue (up to max_workers + 1 of them) run anyway
CancelAllBut(fs, keep) ==
    [k \in 1..Len(fs) |->
        IF fs[k].st = "pending" /\ Cardinality({j \in Pending(fs) : j < k}) >= keep
        THEN [fs[k] EXCEPT !.st = "cancelled"]
        ELSE fs[k]]

\* the caller takes the next result in submission order (line 30, line 41)
Collect ==
    /\ pc \in {"fit", "predict_proba"}
    /\ nxt <= Len(futs)
    /\ futs[nxt].st = "done"
    /\ LET g == Gather(collected, ResultAt(futs, done_order, nxt))
       IN  /\ collected' = g.acc
           /\ exc' = g.exc
           /\ nxt' = nxt + 1
           /\ pc' = IF g.exc # "" \/ nxt = Len(futs)
                    THEN (IF pc = "fit" THEN "fit_exit" ELSE "predict_proba_exit")
                    ELSE pc
           /\ IF g.exc # "" /\ pc = "fit"
              THEN \E keep \in 0..Min2(Len(rng) + 1, Cardinality(Pending(futs))) :
                       futs' = CancelAllBut(futs, keep)
              ELSE futs' = futs
    /\ UNCHANGED <<fasta_vars, lab_vars, config, forest, call, rng, done_order, last, fits_left,
                   old, fitted_on>>

\* the pool is gone once the with block is left
PoolGone ==
    /\ futs' = <<>>
    /\ rng' = <<>>
    /\ nxt' = 1
    /\ collected' = <<>>
    /\ exc' = ""
    /\ done_order' = <<>>

\* fit, the end of the with block and lines 31-32: __exit__ waits for every
\* unit still queued or running, then the exception leaves fit, or the
\* results are unzipped into the forest
FitExit ==
    /\ pc = "fit_exit"
    /\ Pending(futs) \cup Running(futs) = {}
    /\ pc' = "idle"
    /\ PoolGone
    /\ IF exc # ""
       THEN /\ last' = Outcome("fit", "raised", exc, NoRes)
            /\ UNCHANGED <<forest, fitted_on>>
       ELSE IF Len(collected) = 0
       THEN \* zip(*[]) yields nothing to unpack
            /\ last' = Outcome("fit", "raised", "ValueError", NoRes)
            /\ UNCHANGED <<forest, fitted_on>>
       ELSE /\ trees' = [k \in 1..Len(collected) |-> collected[k].clf]
            /\ feat_ids_by_tree' = [k \in 1..Len(collected) |-> collected[k].feat]
            /\ classes_' = classes_
            /\ fitted_on' = [X |-> call.X, y |-> call.y]
            /\ last' = Outcome("fit", "returned", "", [kind |-> "self"])
    /\ UNCHANGED <<fasta_vars, lab_vars, config, call, fits_left, old>>

\* predict_proba, the end of the with block and line 42, then for predict
\* lines 46-47
PredictExit ==
    /\ pc = "predict_proba_exit"
    /\ Pending(futs) \cup Running(futs) = {}
    /\ pc' = "idle"
    /\ PoolGone
    /\ LET m == MeanAxis0([k \in 1..Len(collected) |-> collected[k].proba])
       IN  last' =
             IF exc # "" THEN Outcome(call.op, "raised", exc, NoRes)
             ELSE IF m.kind = "exc" THEN Outcome(call.op, "raised", m.err, NoRes)
             ELSE IF call.op = "predict_proba" THEN Outcome(call.op, "returned", "", m)
             ELSE IF m.kind = "nan"
                  THEN \* np.argmax(nan, axis=1): a scalar has no axis 1
                       Outcome(call.op, "raised", "AxisError", NoRes)
             ELSE Outcome(call.op, "returned", "",
                          [kind |-> "pred", pred |-> ArgMaxAxis1(m.proba)])
    /\ UNCHANGED <<fasta_vars, lab_vars, config, forest, call, fits_left, old, fitted_on>>

Next ==
    \/ \E X \in Matrices, y \in LabelVectors, nj \in 1..MaxJobs : FitCall(X, y, nj)
    \/ \E op \in {"predict_proba", "predict"}, X \in Matrices, nj \in 1..MaxJobs :
           PredictCall(op, X, nj)
    \/ \E w \in 1..MaxJobs : WorkerStart(w)
    \/ \E w \in 1..MaxJobs : WorkerFinish(w)
    \/ Collect
    \/ FitExit
    \/ PredictExit

Spec == Init /\ [][Next]_vars

SpecRefit == InitRefit /\ [][Next]_vars

\* what the pool and the calling thread do not put off for ever: a free
\* worker process takes the oldest waiting unit, a unit that runs comes to
\* its end, the caller takes a result that is ready and leaves the with
\* block once nothing is queued or running.  That a unit comes to its end is
\* weak fairness of WorkerFinish(w): the action is enabled exactly while w is
\* busy and its step leaves w free, so it is stated as the recurrence of a
\* free w.
PoolFairness ==
    /\ \A w \in 1..MaxJobs : WF_vars(WorkerStart(w)) /\ []<>~Busy(w)
    /\ WF_vars(Collect)
    /\ WF_vars(FitExit)
    /\ WF_vars(PredictExit)

\* a forest of MaxTrees trees, each trained on one column, or asked for more
\* columns than any X has
InitFair ==
    /\ Init
    /\ n_estimators = MaxTrees
    /\ max_features \in {1, MaxCols + 1}
    /\ random_state = 0

SpecFair == InitFair /\ [][Next]_vars /\ PoolFairness

\* ------------------------------------------------- OpenFasta: Python str
\* A str is a sequence of one-character strings; a line read from a file ends
\* with "\n", and '' is what readline returns at the end of the file.
Whitespace == {" ", "\n"}

RECURSIVE LStrip(_, _)
\* s.lstrip(chars)
LStrip(s, chars) ==
    IF s # <<>> /\ s[1] \in chars THEN LStrip(Tail(s), chars) ELSE s

RECURSIVE RStrip(_, _)
\* s.rstrip(chars)
RStrip(s, chars) ==
    IF s # <<>> /\ s[Len(s)] \in chars
    THEN RStrip(SubSeq(s, 1, Len(s) - 1), chars)
    ELSE s

\* s.strip() with chars = Whitespace, s.strip('>') with chars = {">"}
Strip(s, chars) == RStrip(LStrip(s, chars), chars)

\* s.startswith(ch) for a one-character ch
StartsWith(s, ch) == s # <<>> /\ s[1] = ch

RECURSIVE Split(_)
\* s.split(): the maximal runs of characters that are not whitespace
Split(s) ==
    LET t == LStrip(s, Whitespace)
        stops == {k \in 1..Len(t) : t[k] \in Whitespace}
        n == IF stops = {} THEN Len(t) + 1
             ELSE CHOOSE k \in stops : \A m \in stops : k <= m
    IN  IF t = <<>> THEN <<>>
        ELSE <<SubSeq(t, 1, n - 1)>> \o Split(SubSeq(t, n, Len(t)))

RECURSIVE Join(_, _)
\* sep.join(parts)
Join(sep, parts) ==
    IF parts = <<>> THEN <<>>
    ELSE IF Len(parts) = 1 THEN parts[1]
    ELSE parts[1] \o sep \o Join(sep, Tail(parts))

\* ------------------------------------------------------------- OpenFasta
\* FastaRecord(id, seq, description)
FastaRecord(id, seq, description) ==
    [id |-> id, seq |-> seq, description |-> description]

\* self.file_handle.readline() after pos lines were read
ReadLine(file, pos) == IF pos < Len(file) THEN file[pos + 1] ELSE <<>>

\* the position of the handle after that readline
AfterReadLine(file, pos) == IF pos < Len(file) THEN pos + 1 ELSE pos

StopIteration(pos) == [kind |-> "StopIteration", pos |-> pos, current |-> None]

RECURSIVE Scan(_, _, _, _, _, _)
\* the while loop of __next__ (lines 176-191) entered with line in hand, and
\* what follows it (lines 193-196)
Scan(file, pos, line, record_id, sequence, description) ==
    IF line = <<>>
    THEN IF record_id # None /\ record_id # <<>>
         THEN [kind |-> "record", rec |-> FastaRecord(record_id, sequence, description),
               pos |-> pos, current |-> None]
         ELSE StopIteration(pos)
    ELSE LET l == Strip(line, Whitespace)
             tokens == Split(l)
         IN  IF StartsWith(l, ">")
             THEN IF record_id # None
                  THEN [kind |-> "record",
                        rec |-> FastaRecord(record_id, sequence, description),
                        pos |-> pos, current |-> l]
                  ELSE Scan(file, AfterReadLine(file, pos), ReadLine(file, pos),
                            Strip(Head(tokens), {">"}), sequence,
                            Join(<<" ">>, Tail(tokens)))
             ELSE Scan(file, AfterReadLine(file, pos), ReadLine(file, pos),
                       record_id, sequence \o l, description)

\* __next__ (lines 155-196): [kind |-> "record" or "StopIteration", rec, and
\* the handle position and self.current it leaves]
NextRecord(file, pos, cur) ==
    LET line == IF cur = None THEN ReadLine(file, pos) ELSE cur
        p    == IF cur = None THEN AfterReadLine(file, pos) ELSE pos
    IN  IF line = <<>> THEN StopIteration(p)
        ELSE Scan(file, p, line, None, <<>>, <<>>)

RECURSIVE ListAll(_, _, _)
\* list(self): __next__ until it raises StopIteration
ListAll(file, pos, cur) ==
    LET r == NextRecord(file, pos, cur)
        rest == ListAll(file, r.pos, r.current)
    IN  IF r.kind = "StopIteration"
        THEN [recs |-> <<>>, pos |-> r.pos, current |-> r.current]
        ELSE [recs |-> <<r.rec>> \o rest.recs, pos |-> rest.pos, current |-> rest.current]

\* the longest file, in lines
MaxLines == 4

\* the texts a line is taken from: a header with id and description, a
\* header with an id alone, a header with no id, sequence lines with and
\* without trailing blanks, an empty line, and an indented header
LineTexts ==
    {<<">", "a", " ", "d">>, <<">", "b">>, <<">">>,
     <<"A">>, <<"C", " ">>, <<>>, <<" ", ">", "b">>}

FastaLines == {t \o <<"\n">> : t \in LineTexts}

FastaFiles == UNION {[1..n -> FastaLines] : n \in 0..MaxLines}

\* no forest is built
ForestUnused ==
    /\ InitWith(0)
    /\ n_estimators = 0
    /\ max_features = NoneVal
    /\ random_state = 0

\* OpenFasta(filename) entered (lines 115-134): the file is open at its
\* start and nothing is read ahead
InitFasta ==
    /\ ForestUnused
    /\ LabUnused
    /\ fasta_file \in FastaFiles
    /\ file_handle = 0
    /\ current = None
    /\ records = <<>>
    /\ fasta_last = [op |-> "none", fresh |-> FALSE, status |-> "none", value |-> <<>>]

\* read_record (lines 198-204): one next(self)
ReadRecord ==
    LET r == NextRecord(fasta_file, file_handle, current)
    IN  /\ file_handle' = r.pos
        /\ current' = r.current
        /\ records' = IF r.kind = "record" THEN Append(records, r.rec) ELSE records
        /\ fasta_last' = [op |-> "read_record", fresh |-> fasta_last.op = "none",
                          status |-> IF r.kind = "record" THEN "returned" ELSE "StopIteration",
                          value |-> IF r.kind = "record" THEN <<r.rec>> ELSE <<>>]
        /\ UNCHANGED <<forest_vars, lab_vars, fasta_file>>

\* read_records (lines 206-212): list(self)
ReadRecords ==
    LET r == ListAll(fasta_file, file_handle, current)
    IN  /\ file_handle' = r.pos
        /\ current' = r.current
        /\ records' = records \o r.recs
        /\ fasta_last' = [op |-> "read_records", fresh |-> fasta_last.op = "none",
                          status |-> "returned", value |-> r.recs]
        /\ UNCHANGED <<forest_vars, lab_vars, fasta_file>>

NextFasta ==
    \/ ReadRecord
    \/ ReadRecords

SpecFasta == InitFasta /\ [][NextFasta]_vars

\* ---------------------------------------------------------- LabEquipment
MaxBookings == 2    \* accepted bookings range over 0..MaxBookings
MaxTime == 2        \* start_time and end_time range over 0..MaxTime

EquipmentNames == {"pcr", "scope"}

Users == {"ann", "bob"}

Times == 0..MaxTime

\* Booking(equipment, user, start_time, end_time) (lines 12-16)
Booking(equipment_name, user, start_time, end_time) ==
    [equipment |-> equipment_name, user |-> user,
     start_time |-> start_time, end_time |-> end_time]

\* each bound compared with the same bound of the other booking
is_intersect_same_ends(self, other) ==
    ~(self.end_time <= other.end_time \/ self.start_time >= other.start_time)

\* Booking.is_intersect (lines 18-21)
is_intersect(self, other) ==
    ~(self.end_time <= other.start_time \/ self.start_time >= other.end_time)

\* LabEquipment.is_available (lines 29-35)
is_available(history, equipment_name, user, start_time, end_time) ==
    \A k \in 1..Len(history) :
        ~(/\ history[k].equipment = equipment_name
          /\ history[k].user # user
          /\ is_intersect(history[k],
                          Booking(equipment_name, user, start_time, end_time)))

\* LabEquipment(equipment) (lines 25-27) for a lab with no equipment, one
\* piece or two
InitLab ==
    /\ ForestUnused
    /\ FastaUnused
    /\ equipment \in {<<>>, <<"pcr">>, <<"pcr", "scope">>}
    /\ booking_history = <<>>
    /\ book_last = [status |-> "none"]

\* LabEquipment.book (lines 37-47)
book(equipment_name, user, start_time, end_time) ==
    LET new_booking == Booking(equipment_name, user, start_time, end_time)
        known == equipment_name \in Range(equipment)
        free  == is_available(booking_history, equipment_name, user,
                              start_time, end_time)
    IN  /\ (known /\ free) => Len(booking_history) < MaxBookings
        /\ IF known /\ free
           THEN /\ booking_history' = Append(booking_history, new_booking)
                /\ equipment' = Append(equipment, equipment_name)
                /\ book_last' = [status |-> "returned", booking |-> new_booking]
           ELSE /\ book_last' = [status |-> "ValueError", booking |-> new_booking]
                /\ UNCHANGED <<equipment, booking_history>>
        /\ UNCHANGED <<forest_vars, fasta_vars>>

NextLab ==
    \E equipment_name \in EquipmentNames, user \in Users,
       start_time \in Times, end_time \in Times :
        book(equipment_name, user, start_time, end_time)

SpecLab == InitLab /\ [][NextLab]_vars

\* ------------------------------------------------------------ the claims
FitReturned == pc = "idle" /\ last.op = "fit" /\ last.status = "returned"

PredictServed == call.op \in {"predict_proba", "predict"}

\* the forest holds the trees of a fit that returned
Fitted == fitted_on.y # <<>>

\* the forest holds the trees of a fit that returned and was given one label
\* per row of X
FittedOnPairs == Fitted /\ NRows(fitted_on.X) = Len(fitted_on.y)

\* C1: once a fit with n_estimators = N >= 1 has returned, the forest holds
\* exactly N trained models and exactly N feature-index sets, one pair per
\* tree index.
C1_TreeCount ==
    (Fitted /\ n_estimators >= 1) =>
        /\ Len(trees) = n_estimators
        /\ Len(feat_ids_by_tree) = n_estimators
        /\ \A k \in 1..n_estimators :
              Len(feat_ids_by_tree[k]) = trees[k].n_features

C1_Witness == FitReturned /\ n_estimators = MaxTrees /\ Len(trees) = MaxTrees

\* what unit i of the fit being served (or served last) produces
UnitOfFit(X, y, i) == FitLoop(random_state, max_features, i, X, y, 0).res

\* C2: whatever the interleaving and the completion order, the k-th result
\* the caller holds is the result of the k-th submitted unit, which is the
\* unit of tree index k-1: in fit the (model, feature ids) pair of that tree
\* index, which is what the forest stores at position k; in predict_proba
\* the output of the tree stored at position k.
C2_ResultOrder ==
    /\ pc # "idle" =>
          \A k \in 1..Len(collected) :
              /\ futs[k].i = k - 1
              /\ collected[k] = futs[k].res
              /\ call.op = "fit" => collected[k] = UnitOfFit(call.X, call.y, k - 1)
              /\ PredictServed =>
                    collected[k] = PredictProbaLoop(call.X, trees[k], feat_ids_by_tree[k])
    /\ FitReturned =>
          \A k \in 1..Len(trees) :
              /\ trees[k] = UnitOfFit(call.X, call.y, k - 1).clf
              /\ feat_ids_by_tree[k] = UnitOfFit(call.X, call.y, k - 1).feat

\* the second unit completed before the first, and both were collected
C2_Witness ==
    /\ pc \in {"fit_exit", "predict_proba_exit"}
    /\ done_order = <<2, 1>>
    /\ Len(collected) = 2
    /\ collected[1] # collected[2]

RECURSIVE SeqRun(_, _, _, _, _)
\* the results of units i..n-1 of a fit run one after the other in a single
\* worker process whose generator starts in state s
SeqRun(X, y, i, n, s) ==
    IF i >= n THEN <<>>
    ELSE LET r == FitLoop(random_state, max_features, i, X, y, s)
         IN  <<r.res>> \o SeqRun(X, y, i + 1, n, r.s)

\* C3: a fit in which every unit succeeded collects, for every tree index,
\* the same row indices, feature indices and trained model as the same fit
\* run on a single worker, however many workers the pool has, whichever
\* worker ran which unit and whatever state the workers' generators started
\* in; the fitted forest is that of the single-worker run.
C3_WorkerCountInvariance ==
    /\ (pc = "fit_exit" /\ exc = "" /\ Len(collected) = n_estimators) =>
          \A s \in InheritedRng :
              collected = SeqRun(call.X, call.y, 0, n_estimators, s)
    /\ FitReturned =>
          \A s \in InheritedRng :
              LET one == SeqRun(call.X, call.y, 0, n_estimators, s)
              IN  /\ trees = [k \in 1..Len(one) |-> one[k].clf]
                  /\ feat_ids_by_tree = [k \in 1..Len(one) |-> one[k].feat]

\* a fit on two workers in which each worker ran one unit
C3_Witness ==
    /\ pc = "fit_exit"
    /\ exc = ""
    /\ Len(rng) = 2
    /\ Len(collected) = 2
    /\ futs[1].w # futs[2].w

\* the TrainingSlice of the spec: drawn from a generator freshly seeded with
\* base_seed + tree_index, columns first (max_features of them, without
\* replacement), then row_count rows with replacement
plan(tree_index, row_count, feature_count, max_feat, base_seed) ==
    LET f == ChoiceNoReplace((base_seed + tree_index) % 64, feature_count, max_feat)
        b == ChoiceReplace(f.s, row_count, row_count)
    IN  [row_indices |-> b.v, feature_indices |-> f.v]

\* C4: the row indices and feature indices a unit of fit draws are those of
\* plan(tree_index, row_count, feature_count, max_features, base_seed), a
\* function of these five values alone: the worker that ran the unit, the
\* units that worker ran before and the state its generator was left in do
\* not enter.
C4_SlicePure ==
    call.op = "fit" =>
        \A k \in 1..Len(futs) :
            (futs[k].st = "done" /\ futs[k].res.kind = "fit") =>
                LET p == plan(futs[k].i, NRows(call.X), call.X.ncols,
                              max_features, random_state)
                IN  /\ futs[k].res.x_ids = p.row_indices
                    /\ futs[k].res.feat = p.feature_indices

\* one worker ran both units, the second on a generator the first had used
C4_Witness ==
    /\ call.op = "fit"
    /\ Len(futs) = 2
    /\ futs[1].st = "done" /\ futs[2].st = "done"
    /\ futs[1].res.kind = "fit" /\ futs[2].res.kind = "fit"
    /\ futs[1].w = futs[2].w
    /\ futs[1].res.x_ids # futs[2].res.x_ids

PredictProbaReturned ==
    pc = "idle" /\ last.op = "predict_proba" /\ last.status = "returned"

PredictReturned == pc = "idle" /\ last.op = "predict" /\ last.status = "returned"

\* 1-based position of label in the sorted sequence classes, 0 if absent
PosOf(classes, label) ==
    IF \E c \in 1..Len(classes) : classes[c] = label
    THEN CHOOSE c \in 1..Len(classes) : classes[c] = label
    ELSE 0

\* the probability tree k gives class label on row r of X, over ProbDen: the
\* cell of its own predict_proba output under that label, 0 for a label the
\* tree has no column for
TreeProba(k, X, r, label) ==
    LET out == ClfPredictProba(trees[k], TakeCols(X, feat_ids_by_tree[k]))
        c   == PosOf(trees[k].classes, label)
    IN  IF c = 0 THEN 0 ELSE out.rows[r][c]

\* the sum over all trees of the probability of class label on row r
SumProba(X, r, label) ==
    SumSeq([k \in 1..Len(trees) |-> TreeProba(k, X, r, label)])

\* every tree's probability columns are those of the ClassRegistry
Aligned == \A k \in 1..Len(trees) : trees[k].classes = classes_

\* C5: what predict_proba returns for a forest fitted on an X and a y of the
\* same length has one column per class of the ClassRegistry, and its cell
\* for row r and class c is the unweighted mean over all n_estimators trees
\* of the probability that tree gives class c on row r (cells are over
\* MeanDen, tree probabilities over ProbDen, so cell * n_estimators =
\* sum * Fact(MaxTrees)).
C5_MeanPerClass ==
    (PredictProbaReturned /\ FittedOnPairs) =>
        /\ last.value.kind = "proba"
        /\ last.value.proba.ncols = Len(classes_)
        /\ \A r \in 1..NRows(call.X), c \in 1..Len(classes_) :
              last.value.proba.rows[r][c] * n_estimators
                  = SumProba(call.X, r, classes_[c]) * Fact(MaxTrees)

\* 1-based position in classes_ of the first class with the largest summed
\* (hence mean) probability on row r
FirstBest(X, r) ==
    CHOOSE c \in 1..Len(classes_) :
        /\ \A d \in 1..Len(classes_) :
              SumProba(X, r, classes_[d]) <= SumProba(X, r, classes_[c])
        /\ \A d \in 1..(c - 1) :
              SumProba(X, r, classes_[d]) < SumProba(X, r, classes_[c])

\* C6: for every row of X, predict returns the class label of the
\* ClassRegistry whose mean probability is the largest, the first such label
\* in ClassRegistry order on a tie (stated for forests whose trees all have
\* the ClassRegistry's columns).
C6_PredictLabel ==
    (PredictReturned /\ FittedOnPairs /\ Aligned) =>
        /\ Len(last.value.pred) = NRows(call.X)
        /\ \A r \in 1..NRows(call.X) :
              last.value.pred[r] = classes_[FirstBest(call.X, r)]

\* what the code returns there: the 0-based column of the first maximum
C6_PredictColumn ==
    (PredictReturned /\ FittedOnPairs /\ Aligned) =>
        /\ Len(last.value.pred) = NRows(call.X)
        /\ \A r \in 1..NRows(call.X) :
              last.value.pred[r] = FirstBest(call.X, r) - 1

\* C7: on a forest fitted on an X and a y of the same length, and an X with
\* the fit-time column count,
\* predict_proba returns a matrix with one row per row of X and one column
\* per class of the ClassRegistry, every tree's probability matrix having
\* exactly these columns, and predict returns one prediction per row of X.
C7_Shapes ==
    (pc = "idle" /\ FittedOnPairs /\ PredictServed /\ call.X.ncols = fitted_on.X.ncols) =>
        /\ Aligned
        /\ last.status = "returned"
        /\ last.op = "predict_proba" =>
              /\ last.value.kind = "proba"
              /\ NRows(last.value.proba) = NRows(call.X)
              /\ last.value.proba.ncols = Len(classes_)
        /\ last.op = "predict" => Len(last.value.pred) = NRows(call.X)

\* the feature indices tree k was trained with, drawn again from the data
\* of the fit that built the forest
TrainedFeat(k) == UnitOfFit(fitted_on.X, fitted_on.y, k - 1).feat

\* C8: while predict_proba or predict is served, and when it has returned or
\* raised, the trees, their feature indices and the ClassRegistry are what
\* they were; and every unit that ran queried its tree on the columns of X
\* the tree was trained with, once per row of X.
C8_PredictFrame ==
    /\ [](PredictServed =>
            \A k \in 1..Len(futs) :
                futs[k].st = "done" =>
                    LET tf == TrainedFeat(k)
                    IN  futs[k].res =
                            IF \E j \in 1..Len(tf) : tf[j] >= call.X.ncols
                            THEN Raised("IndexError")
                            ELSE [kind |-> "proba",
                                  proba |-> ClfPredictProba(trees[k], TakeCols(call.X, tf))])
    /\ [][call'.op \in {"predict_proba", "predict"} =>
            /\ trees' = trees
            /\ feat_ids_by_tree' = feat_ids_by_tree
            /\ classes_' = classes_]_vars

\* a predict on a two-tree forest returned, its trees trained on different
\* columns
C8_Witness ==
    /\ PredictReturned
    /\ Len(trees) = 2
    /\ feat_ids_by_tree[1] # feat_ids_by_tree[2]

Failed(fs) == {k \in 1..Len(fs) : fs[k].st = "done" /\ fs[k].res.kind = "exc"}

Succeeded(fs) == {k \in 1..Len(fs) : fs[k].st = "done" /\ fs[k].res.kind # "exc"}

\* C10: when a unit has failed, the call that leaves the with block raises:
\* fit stores no tree and no feature indices, predict_proba and predict
\* return nothing.
C10_FailFast ==
    [][(pc \in {"fit_exit", "predict_proba_exit"} /\ pc' = "idle" /\ Failed(futs) # {}) =>
          /\ last'.status = "raised"
          /\ last'.value = NoRes
          /\ trees' = trees
          /\ feat_ids_by_tree' = feat_ids_by_tree]_vars

\* the call is about to leave the with block with one unit failed and
\* another succeeded
C10_Witness ==
    /\ pc \in {"fit_exit", "predict_proba_exit"}
    /\ Pending(futs) \cup Running(futs) = {}
    /\ Failed(futs) # {}
    /\ Succeeded(futs) # {}

FitRaised == pc = "idle" /\ last.op = "fit" /\ last.status = "raised"

\* C9: a fit on an already fitted forest, given one label per row of X, that
\* raises leaves the trees, their
\* feature indices and the ClassRegistry exactly as they were when the call
\* began; one that returns has replaced the trees and feature indices by
\* those of the new fit and the ClassRegistry by that of the new y.
C9_RefitAtomic ==
    /\ (FitRaised /\ old.trees # <<>> /\ NRows(call.X) = Len(call.y)) =>
          /\ trees = old.trees
          /\ feat_ids_by_tree = old.feat_ids_by_tree
          /\ classes_ = old.classes_
    /\ (FitReturned /\ old.trees # <<>>) =>
          /\ \A k \in 1..n_estimators :
                /\ trees[k] = UnitOfFit(call.X, call.y, k - 1).clf
                /\ feat_ids_by_tree[k] = UnitOfFit(call.X, call.y, k - 1).feat
          /\ classes_ = SortedSeqOf(Range(call.y))

\* the part of C9 the code keeps: the trees and feature indices survive a
\* failed refit, and a successful refit replaces the whole fitted state
C9_TreesKept ==
    /\ (FitRaised /\ old.trees # <<>> /\ NRows(call.X) = Len(call.y)) =>
          /\ trees = old.trees
          /\ feat_ids_by_tree = old.feat_ids_by_tree
    /\ (FitReturned /\ old.trees # <<>>) =>
          /\ \A k \in 1..n_estimators :
                /\ trees[k] = UnitOfFit(call.X, call.y, k - 1).clf
                /\ feat_ids_by_tree[k] = UnitOfFit(call.X, call.y, k - 1).feat
          /\ classes_ = SortedSeqOf(Range(call.y))

\* a predict_proba or predict call has ended on a forest no fit has built
UnfittedPredictEnded == pc = "idle" /\ PredictServed /\ ~Fitted

\* C11: predict_proba or predict on a forest on which no fit has yet
\* succeeded (newly constructed, or after only failed fits) raises
\* NotFittedError and returns no prediction.
C11_NotFitted ==
    UnfittedPredictEnded =>
        /\ last.status = "raised"
        /\ last.err = "NotFittedError"
        /\ last.value = NoRes

\* what the code does there: self.trees[i] raises IndexError when at least
\* one tree is asked for, and with n_estimators = 0 predict_proba returns the
\* mean of nothing and predict raises on its argmax
C11_IndexError ==
    UnfittedPredictEnded =>
        IF n_estimators >= 1
        THEN last.status = "raised" /\ last.err = "IndexError" /\ last.value = NoRes
        ELSE IF last.op = "predict_proba"
        THEN last.status = "returned" /\ last.value.kind = "nan"
        ELSE last.status = "raised" /\ last.err = "AxisError"

\* the fit being served, or served last, was given an X and a y of
\* different lengths
ShapeMismatchFit == call.op = "fit" /\ NRows(call.X) # Len(call.y)

\* the predict being served, or served last, was given an X whose column
\* count is not the one seen at fit time
ShapeMismatchPredict ==
    PredictServed /\ Fitted /\ call.X.ncols # fitted_on.X.ncols

ForestAsBefore ==
    /\ trees = old.trees
    /\ feat_ids_by_tree = old.feat_ids_by_tree
    /\ classes_ = old.classes_

\* C12: a fit whose X and y differ in length, and a predict_proba or predict
\* whose X differs in column count from the X seen at fit time, raise
\* ShapeError before any unit is handed to the pool, and leave the trees,
\* their feature indices and the ClassRegistry as they were.
C12_ShapeChecked ==
    (ShapeMismatchFit \/ ShapeMismatchPredict) =>
        /\ futs = <<>>
        /\ ForestAsBefore
        /\ pc = "idle" => (last.status = "raised" /\ last.err = "ShapeError")

\* max_features absent, below 1 or above the column count of X, or fewer
\* than one tree
BadConfig(X) ==
    \/ max_features = NoneVal
    \/ max_features < 1
    \/ max_features > X.ncols
    \/ n_estimators < 1

\* C13: a fit of a forest whose configuration is invalid for X raises
\* ConfigError before any unit is handed to the pool: no unit runs, so none
\* fails in the middle of the run, and the forest is not fitted.
C13_ConfigChecked ==
    (call.op = "fit" /\ BadConfig(call.X)) =>
        /\ futs = <<>>
        /\ ~FitReturned
        /\ pc = "idle" => (last.status = "raised" /\ last.err = "ConfigError")

\* the part of C13 the code keeps: an invalid configuration never yields a
\* fitted forest, every such fit ending in a ValueError
C13_NeverFitted ==
    (call.op = "fit" /\ BadConfig(call.X) /\ NRows(call.X) = Len(call.y)) =>
        /\ ~FitReturned
        /\ pc = "idle" => (last.status = "raised" /\ last.err = "ValueError")

\* the sample X[row_indices][:, feature_indices] as rows of cells
SliceRows(X, row_indices, feature_indices) ==
    [j \in 1..Len(row_indices) |->
        [c \in 1..Len(feature_indices) |->
            X.rows[row_indices[j] + 1][feature_indices[c] + 1]]]

\* C15: with at least one row and 1 <= max_features <= feature_count, every
\* unit of fit that has run drew row_count row indices in [0, row_count)
\* and max_features pairwise distinct feature indices in [0, feature_count),
\* and trained its tree on exactly the rows X[row_indices] restricted to
\* those columns, with the labels y[row_indices]; given one label per row no
\* unit fails, and the trees the forest stores are the ones so trained.
C15_SliceShape ==
    (call.op = "fit" /\ NRows(call.X) >= 1 /\ max_features \in 1..call.X.ncols) =>
        /\ \A k \in 1..Len(futs) :
              futs[k].st = "done" =>
                  LET r == futs[k].res
                  IN  /\ NRows(call.X) = Len(call.y) => r.kind = "fit"
                      /\ r.kind = "fit" =>
                            /\ Len(r.x_ids) = NRows(call.X)
                            /\ \A j \in 1..Len(r.x_ids) : r.x_ids[j] \in 0..(NRows(call.X) - 1)
                            /\ Len(r.feat) = max_features
                            /\ \A a, b \in 1..Len(r.feat) : a # b => r.feat[a] # r.feat[b]
                            /\ \A a \in 1..Len(r.feat) : r.feat[a] \in 0..(call.X.ncols - 1)
                            /\ r.clf.X = SliceRows(call.X, r.x_ids, r.feat)
                            /\ r.clf.y = [j \in 1..Len(r.x_ids) |-> call.y[r.x_ids[j] + 1]]
        /\ FitReturned =>
              \A k \in 1..Len(trees) :
                  LET p == plan(k - 1, NRows(call.X), call.X.ncols, max_features, random_state)
                  IN  /\ feat_ids_by_tree[k] = p.feature_indices
                      /\ trees[k].X = SliceRows(call.X, p.row_indices, p.feature_indices)
                      /\ trees[k].y = [j \in 1..NRows(call.X) |-> call.y[p.row_indices[j] + 1]]

\* a fit of an X whose two columns differ, in which one unit trained on the
\* second column alone and another on the same row taken twice
C15_Witness ==
    /\ call.op = "fit"
    /\ call.X.ncols = 2
    /\ NRows(call.X) = 2
    /\ \E k, m \in 1..Len(futs) :
          /\ futs[k].st = "done" /\ futs[m].st = "done"
          /\ futs[k].res.kind = "fit" /\ futs[m].res.kind = "fit"
          /\ futs[k].res.feat = <<1>>
          /\ futs[m].res.x_ids[1] = futs[m].res.x_ids[2]

\* the calling thread has left the loop that waits on the futures
PoolLeft == pc \in {"fit_exit", "predict_proba_exit"}

\* the with block is about to be left: nothing is queued or running
PoolDrained == PoolLeft /\ Pending(futs) \cup Running(futs) = {}

\* how many times unit k of the call being served has run to its end
TimesRun(k) == Cardinality({j \in 1..Len(done_order) : done_order[j] = k})

\* never more units running than the pool has worker processes
WithinWorkerLimit == Cardinality(Running(futs)) <= Len(rng)

\* the caller stops waiting only once every unit has completed or one has
\* failed
ResumesAfterAllOrFailure ==
    (PoolLeft /\ futs # <<>>) =>
        \/ \A k \in 1..Len(futs) : futs[k].st = "done"
        \/ Failed(futs) # {}

\* C16 as stated: never more than worker_limit units run at once, the
\* caller resumes only after all units have completed or one has failed,
\* and by the time the pool is left every one of the n_estimators units has
\* been executed exactly once.
C16_AllExecuted ==
    /\ WithinWorkerLimit
    /\ ResumesAfterAllOrFailure
    /\ PoolDrained =>
          \A k \in 1..Len(futs) : futs[k].st = "done" /\ TimesRun(k) = 1

\* the part of C16 the code keeps: never more than worker_limit units run at once;
\* a unit that waits is eventually started, or cancelled by a fit that has
\* seen a unit fail; every call eventually leaves the pool, and then every
\* unit has been executed exactly once or, in such a fit, not at all; no
\* unit ever runs twice; the caller resumes only after all units have
\* completed or one has failed.
C16_PoolSchedule ==
    /\ [](WithinWorkerLimit /\ ResumesAfterAllOrFailure)
    /\ [](\A k \in 1..Len(futs) : TimesRun(k) <= 1)
    /\ [](PoolDrained =>
            \A k \in 1..Len(futs) :
                \/ futs[k].st = "done" /\ TimesRun(k) = 1
                \/ /\ futs[k].st = "cancelled"
                   /\ TimesRun(k) = 0
                   /\ call.op = "fit"
                   /\ Failed(futs) # {})
    /\ [](PoolDrained /\ Failed(futs) = {} =>
            /\ Len(futs) = (IF exc = "" THEN n_estimators ELSE 0)
            /\ \A k \in 1..Len(futs) : futs[k].st = "done" /\ TimesRun(k) = 1)
    /\ \A k \in 1..MaxTrees : (k \in Pending(futs)) ~> (k \notin Pending(futs))
    /\ (pc # "idle") ~> (pc = "idle")

\* one worker, two units: the first has come to its end and the second,
\* which had to wait for the worker, is running
C16_Witness ==
    /\ Len(rng) = 1
    /\ Len(futs) = 2
    /\ futs[1].st = "done"
    /\ futs[2].st = "running"

\* a header line: a line that starts with '>'
IsHeader(line) == StartsWith(line, ">")

\* the positions of the header lines of file, in file order
HeaderLines(file) == SortedSeqOf({k \in 1..Len(file) : IsHeader(file[k])})

\* a FASTA file: it starts with a header, and '>' appears only at the start
\* of a line
FastaShaped(file) ==
    /\ file # <<>> => IsHeader(file[1])
    /\ \A k \in 1..Len(file) :
          (\E c \in 1..Len(file[k]) : file[k][c] = ">") => IsHeader(file[k])

RECURSIVE StrippedLines(_, _, _)
\* the stripped lines a..b of file, concatenated
StrippedLines(file, a, b) ==
    IF a > b THEN <<>>
    ELSE Strip(file[a], Whitespace) \o StrippedLines(file, a + 1, b)

\* a token with every '>' taken out
WithoutMark(token) == SelectSeq(token, LAMBDA ch : ch # ">")

\* the records of file as C14 has them
ExpectedRecords(file) ==
    LET hs == HeaderLines(file)
    IN  [j \in 1..Len(hs) |->
            LET tokens == Split(file[hs[j]])
                upto   == IF j < Len(hs) THEN hs[j + 1] - 1 ELSE Len(file)
            IN  FastaRecord(WithoutMark(Head(tokens)),
                            StrippedLines(file, hs[j] + 1, upto),
                            Join(<<" ">>, Tail(tokens)))]

\* read_records has returned from a call on a freshly opened file
ReadAllFresh == fasta_last.op = "read_records" /\ fasta_last.fresh

\* the iterator has said that no record is left
Exhausted == fasta_last.op = "read_records" \/ fasta_last.status = "StopIteration"

\* C14: on a freshly opened FASTA file with k header lines read_records
\* returns exactly k records in file order, record j with the id and the
\* description of the j-th header and the concatenated stripped lines up to
\* the next header as seq; and once the records are exhausted every further
\* next() raises StopIteration.
C14_ReadRecords ==
    FastaShaped(fasta_file) =>
        /\ ReadAllFresh =>
              /\ Len(fasta_last.value) = Len(HeaderLines(fasta_file))
              /\ fasta_last.value = ExpectedRecords(fasta_file)
        /\ Exhausted =>
              NextRecord(fasta_file, file_handle, current).kind = "StopIteration"

\* every header of file carries an id
EveryHeaderHasId(file) ==
    \A k \in 1..Len(file) :
        IsHeader(file[k]) => WithoutMark(Head(Split(file[k]))) # <<>>

\* the part of C14 the code keeps: the same, for files whose headers all
\* carry an id
C14_WithIds ==
    (FastaShaped(fasta_file) /\ EveryHeaderHasId(fasta_file)) =>
        /\ ReadAllFresh =>
              /\ Len(fasta_last.value) = Len(HeaderLines(fasta_file))
              /\ fasta_last.value = ExpectedRecords(fasta_file)
        /\ Exhausted =>
              NextRecord(fasta_file, file_handle, current).kind = "StopIteration"

\* the time intervals of a and b overlap
Overlap(a, b) == a.start_time < b.end_time /\ b.start_time < a.end_time

\* two bookings of the same equipment by different users that overlap
Clash(a, b) == a.equipment = b.equipment /\ a.user # b.user /\ Overlap(a, b)

NoClash ==
    \A i, j \in 1..Len(booking_history) :
        ~Clash(booking_history[i], booking_history[j])

\* the booking asked for would clash with one in history
WouldClash(history, b) == \E k \in 1..Len(history) : Clash(history[k], b)

\* C17: booking_history never holds two bookings of the same equipment by
\* different users whose intervals overlap; and a book call that would
\* create such an overlap, or that names equipment the lab does not have,
\* raises ValueError and leaves booking_history unchanged.
C17_NoDoubleBooking ==
    /\ []NoClash
    /\ [][(\/ WouldClash(booking_history, book_last'.booking)
           \/ book_last'.booking.equipment \notin Range(equipment)) =>
             /\ book_last'.status = "ValueError"
             /\ booking_history' = booking_history]_vars

\* two users hold the same equipment at different times, and a request that
\* would overlap one of them has just been turned down
C17_Witness ==
    /\ Len(booking_history) = 2
    /\ booking_history[1].equipment = booking_history[2].equipment
    /\ booking_history[1].user # booking_history[2].user
    /\ booking_history[1].start_time < booking_history[1].end_time
    /\ booking_history[2].start_time < booking_history[2].end_time
    /\ book_last.status = "ValueError"
    /\ book_last.booking.equipment \in Range(equipment)
    /\ WouldClash(booking_history, book_last.booking)
====
